---- MODULE Spec2Model ----
(***************************************************************************)
(* Model of the in-app-messaging engine                                    *)
(* packages/notifications/src/inAppMessaging/InAppMessaging.ts:            *)
(* the pluggable registry, the configuration merge, the analytics bridge,  *)
(* the per-provider message cache and the sync / clear / dispatch fan-out. *)
(* One top-level asynchronous call is followed at a time, through every    *)
(* interleaving of its per-provider branches.                              *)
(***************************************************************************)
EXTENDS Integers, Sequences, FiniteSets, TLC

VARIABLES
    config,                     \* this.config
    listeningForAnalyticEvents, \* this.listeningForAnalyticEvents
    pluggables,                 \* this.pluggables
    storageSynced,              \* this.storageSynced
    hubListeners,               \* number of Hub.listen('analytics', ...) subscriptions made
    storageHasSync,             \* typeof storage.sync === 'function'
    storage,                    \* contents of config.storage, key -> stored text
    written,                    \* per storage key, the sequence last stored by the engine (history)
    call,                       \* the syncMessages / clearMessages / dispatchEvent call being followed
    last                        \* the operation that produced the current state and what it called

vars == <<config, listeningForAnalyticEvents, pluggables, storageSynced,
          hubListeners, storageHasSync, storage, written, call, last>>

-----------------------------------------------------------------------------
(* Bounds *)

MaxPluggables == 2      \* longest registry explored

-----------------------------------------------------------------------------
(* Providers handed to addPluggable *)

STORAGE_KEY_SUFFIX == "_inAppMessages"

NullProvider == "null"
DefaultProvider == "awsPinpoint"

\* provider objects: two with the same name, two failing the category check
UserProviders == {"push", "pull", "push2", "analytics", "pushNotification"}
Providers == UserProviders \cup {DefaultProvider}

\* the default provider class (./Providers) is not part of the sources at hand
DefaultProviderName == "AWSPinpoint"
DefaultCategory == "Notifications"
DefaultSubCategory == "InAppMessaging"

getProviderName(p) ==
    CASE p = "push" -> "push"
      [] p = "push2" -> "push"
      [] p = "pull" -> "pull"
      [] p = "analytics" -> "analytics"
      [] p = "pushNotification" -> "pushNotification"
      [] p = DefaultProvider -> DefaultProviderName

getCategory(p) ==
    CASE p = "analytics" -> "Analytics"
      [] p = DefaultProvider -> DefaultCategory
      [] OTHER -> "Notifications"

getSubCategory(p) ==
    CASE p = "pushNotification" -> "PushNotification"
      [] p = DefaultProvider -> DefaultSubCategory
      [] OTHER -> "InAppMessaging"

ProviderNames == {getProviderName(p) : p \in Providers}

-----------------------------------------------------------------------------
(* Configuration objects                                                   *)
(* An object is its option keys (0 = key absent) and, per provider name,   *)
(* an optional nested sub-configuration.                                   *)

OptKeys == {"storage", "appId"}

NoOpts == [k \in OptKeys |-> 0]
NoSub == [present |-> FALSE, opts |-> NoOpts]
SubOf(o) == [present |-> TRUE, opts |-> o]
NoSubs == [n \in ProviderNames |-> NoSub]

EmptyObject == [defined |-> TRUE, top |-> NoOpts, sub |-> NoSubs]
UndefinedValue == [defined |-> FALSE, top |-> NoOpts, sub |-> NoSubs]

\* the constructor's { storage: new StorageHelper().getStorage() }
InitialConfig == [EmptyObject EXCEPT !.top = [NoOpts EXCEPT !["storage"] = 1]]

\* the `...config` rest argument of configure()
ConfigInputs ==
    { EmptyObject,
      [EmptyObject EXCEPT !.top = [NoOpts EXCEPT !["appId"] = 1]],
      [EmptyObject EXCEPT !.sub = [NoSubs EXCEPT !["push"] = SubOf([NoOpts EXCEPT !["appId"] = 2])]],
      [EmptyObject EXCEPT !.sub = [NoSubs EXCEPT !["AWSPinpoint"] = SubOf([NoOpts EXCEPT !["appId"] = 3])]] }

ListenInputs == {"true", "false", "omitted"}

\* { ...a, ...b }
Spread(a, b) ==
    [defined |-> TRUE,
     top |-> [k \in OptKeys |-> IF b.top[k] # 0 THEN b.top[k] ELSE a.top[k]],
     sub |-> [n \in ProviderNames |-> IF b.sub[n].present THEN b.sub[n] ELSE a.sub[n]]]

\* cfg[name]
Lookup(cfg, name) ==
    IF cfg.sub[name].present
    THEN [defined |-> TRUE, top |-> cfg.sub[name].opts, sub |-> NoSubs]
    ELSE UndefinedValue

\* x ?? {}
OrEmpty(x) == IF x.defined THEN x ELSE EmptyObject

\* { ...this.config, ...(this.config[name] ?? {}) }
MergedConfig(cfg, name) == Spread(cfg, OrEmpty(Lookup(cfg, name)))

-----------------------------------------------------------------------------
(* Registry *)

FindLastIndex(ps, name) ==
    IF \E i \in 1..Len(ps) : getProviderName(ps[i]) = name
    THEN CHOOSE i \in 1..Len(ps) :
            /\ getProviderName(ps[i]) = name
            /\ \A j \in (i + 1)..Len(ps) : getProviderName(ps[j]) # name
    ELSE -1

\* Array.prototype.find / findIndex over provider names, 1-based, -1 when absent
FindIndex(ps, name) ==
    IF \E i \in 1..Len(ps) : getProviderName(ps[i]) = name
    THEN CHOOSE i \in 1..Len(ps) :
            /\ getProviderName(ps[i]) = name
            /\ \A j \in 1..(i - 1) : getProviderName(ps[j]) # name
    ELSE -1

getPluggable(ps, name) ==
    IF FindIndex(ps, name) = -1 THEN NullProvider ELSE ps[FindIndex(ps, name)]

AcceptedByCategoryOnly(p) ==
    /\ p # NullProvider
    /\ getCategory(p) = "Notifications"

\* the guard of addPluggable
Accepted(p) ==
    /\ p # NullProvider
    /\ getCategory(p) = "Notifications"
    /\ getSubCategory(p) = "InAppMessaging"

\* the value addPluggable hands to the provider's configure
AddPluggableConfig(cfg, p) == Lookup(cfg, getProviderName(p))

\* addPluggable as a function of the registry: new registry and configure calls made
addPluggable(ps, cfg, p) ==
    IF Accepted(p)
    THEN [pluggables |-> Append(ps, p),
          configured |-> <<[provider |-> p, cfg |-> AddPluggableConfig(cfg, p)]>>]
    ELSE [pluggables |-> ps, configured |-> <<>>]

SpliceToEnd(ps, index) == SubSeq(ps, 1, index - 1)

\* splice(index, 1)
Splice(ps, index) == SubSeq(ps, 1, index - 1) \o SubSeq(ps, index + 1, Len(ps))

removePluggable(ps, name) ==
    IF FindIndex(ps, name) = -1 THEN ps ELSE Splice(ps, FindIndex(ps, name))

-----------------------------------------------------------------------------
(* Messages, their serialised form, and the storage capability *)

Messages == {"m1", "m2"}

\* a value that is either undefined or a sequence of messages
UndefinedMessages == [defined |-> FALSE, msgs |-> <<>>]
Some(msgs) == [defined |-> TRUE, msgs |-> msgs]

\* JSON text is a sequence of tokens; a message serialises to one object token
MessageJSON(m) == "{id:" \o m \o "}"

RECURSIVE Joined(_)
Joined(msgs) ==
    IF Len(msgs) = 0 THEN <<>>
    ELSE IF Len(msgs) = 1 THEN <<MessageJSON(Head(msgs))>>
    ELSE <<MessageJSON(Head(msgs)), ",">> \o Joined(Tail(msgs))

\* JSON.stringify(messages)
JSONStringify(msgs) == <<"[">> \o Joined(msgs) \o <<"]">>

JSONParseReversed(text) ==
    LET inner == SubSeq(text, 2, Len(text) - 1)
        n == (Len(inner) + 1) \div 2
    IN [i \in 1..n |-> CHOOSE m \in Messages : MessageJSON(m) = inner[2 * (n - i) + 1]]

\* JSON.parse(storedMessages)
JSONParse(text) ==
    LET inner == SubSeq(text, 2, Len(text) - 1)
        n == (Len(inner) + 1) \div 2
    IN [i \in 1..n |-> CHOOSE m \in Messages : MessageJSON(m) = inner[2 * i - 1]]

\* getItem of a key never written: null
NoItem == <<>>

\* `${pluggable.getProviderName()}${STORAGE_KEY_SUFFIX}`
StorageKey(name) == name \o STORAGE_KEY_SUFFIX

StorageKeys == {StorageKey(getProviderName(p)) : p \in {q \in Providers : Accepted(q)}}

\* what pluggable.getInAppMessages() may resolve to
FetchResults == {UndefinedMessages, Some(<<>>), Some(<<"m1", "m2">>)}

\* what pluggable.processInAppMessages() may resolve to: no match, or the provider's matches
EvaluateResults(p) == {<<>>, IF p = "pull" THEN <<"m2">> ELSE <<"m1", "m2">>}

\* events
NoEvent == [event |-> "", name |-> ""]
\* an InAppMessagingEvent
ClickedEvent == [event |-> "", name |-> "clicked"]
\* arguments of dispatchEvent: an InAppMessagingEvent, and { event: 'other', data: {} }
DispatchInputs == {ClickedEvent, [event |-> "other", name |-> ""]}
NoPayload == [event |-> "", data |-> NoEvent]
HubPayloads == {[event |-> "record", data |-> ClickedEvent],
                [event |-> "configured", data |-> ClickedEvent]}

\* one top-level asynchronous call and its per-provider branches
IdleCall ==
    [op |-> "none", event |-> NoEvent, status |-> "idle", branches |-> <<>>,
     publications |-> 0, storageSyncs |-> 0, caught |-> FALSE, registry |-> <<>>]

PendingPcs == {"awaitFetch", "awaitSync", "afterSync", "awaitEvaluate"}

-----------------------------------------------------------------------------
(* What the last operation did *)

NoLast ==
    [op |-> "init", provider |-> NullProvider, name |-> "", ret |-> NullProvider,
     listen |-> "omitted", before |-> <<>>, configured |-> <<>>, subscribed |-> 0,
     branch |-> 0, payload |-> NoPayload, event |-> NoEvent, started |-> 0,
     storageOps |-> <<>>, providerCalls |-> <<>>, results |-> <<>>, published |-> <<>>,
     fetched |-> UndefinedMessages, caught |-> FALSE]

-----------------------------------------------------------------------------
(* Actions: registry and configuration *)

Init ==
    /\ config = InitialConfig
    /\ listeningForAnalyticEvents = FALSE
    /\ pluggables = <<>>
    /\ storageSynced = FALSE
    /\ hubListeners = 0
    /\ storageHasSync \in BOOLEAN
    /\ storage = [k \in StorageKeys |-> NoItem]
    /\ written = [k \in StorageKeys |-> UndefinedMessages]
    /\ call = IdleCall
    /\ last = NoLast

ShouldListenUnguarded(listen, listening) == listen # "false"

\* should Hub.listen be called by this configure()
ShouldListen(listen, listening) ==
    LET listenForAnalyticsEvents == (listen # "false")   \* default parameter = true
    IN listenForAnalyticsEvents /\ ~listening

NeedsDefaultAlways(ps) == TRUE

\* this.pluggables.length === 0
NeedsDefault(ps) == Len(ps) = 0

Configure(listen, cfg) ==
    LET newConfig == Spread(config, cfg)
        reconfigured == [i \in 1..Len(pluggables) |->
                            [provider |-> pluggables[i],
                             cfg |-> MergedConfig(newConfig, getProviderName(pluggables[i]))]]
        added == IF NeedsDefault(pluggables)
                 THEN addPluggable(pluggables, newConfig, DefaultProvider)
                 ELSE [pluggables |-> pluggables, configured |-> <<>>]
        subscribe == ShouldListen(listen, listeningForAnalyticEvents)
    IN /\ config' = newConfig
       /\ pluggables' = added.pluggables
       /\ hubListeners' = IF subscribe THEN hubListeners + 1 ELSE hubListeners
       /\ listeningForAnalyticEvents' = IF subscribe THEN TRUE ELSE listeningForAnalyticEvents
       /\ last' = [NoLast EXCEPT !.op = "configure", !.listen = listen,
                                 !.before = pluggables,
                                 !.configured = reconfigured \o added.configured,
                                 !.subscribed = IF subscribe THEN 1 ELSE 0]
       /\ UNCHANGED <<storageSynced, storageHasSync, storage, written, call>>

AddPluggable(p) ==
    LET r == addPluggable(pluggables, config, p)
    IN /\ Len(pluggables) < MaxPluggables
       /\ pluggables' = r.pluggables
       /\ last' = [NoLast EXCEPT !.op = "addPluggable", !.provider = p,
                                 !.before = pluggables, !.configured = r.configured]
       /\ UNCHANGED <<config, listeningForAnalyticEvents, storageSynced, hubListeners,
                      storageHasSync, storage, written, call>>

RemovePluggable(name) ==
    /\ pluggables' = removePluggable(pluggables, name)
    /\ last' = [NoLast EXCEPT !.op = "removePluggable", !.name = name, !.before = pluggables]
    /\ UNCHANGED <<config, listeningForAnalyticEvents, storageSynced, hubListeners,
                   storageHasSync, storage, written, call>>

GetPluggable(name) ==
    /\ last' = [NoLast EXCEPT !.op = "getPluggable", !.name = name, !.before = pluggables,
                              !.ret = getPluggable(pluggables, name)]
    /\ UNCHANGED <<config, listeningForAnalyticEvents, pluggables, storageSynced,
                   hubListeners, storageHasSync, storage, written, call>>

NextRegistry ==
    \/ \E listen \in ListenInputs, cfg \in ConfigInputs : Configure(listen, cfg)
    \/ \E p \in UserProviders \cup {NullProvider} : AddPluggable(p)
    \/ \E name \in ProviderNames \cup {"unknown"} : RemovePluggable(name)
    \/ \E name \in ProviderNames \cup {"unknown"} : GetPluggable(name)

SpecRegistry == Init /\ [][NextRegistry]_vars

-----------------------------------------------------------------------------
(* Message cache: syncStorage, getMessages, setMessages, removeMessages    *)
(* A cache operation of a provider's branch works on                       *)
(*   st = [synced, storage, written, syncs, ops, providerCalls]:           *)
(* the storageSynced flag, the storage contents, the number of             *)
(* storage.sync() calls made, the log of storage calls and the log of      *)
(* provider calls. It yields the new st, where the branch is suspended     *)
(* (pc) and the value the branch carries across the suspension.            *)

\* a call of the storage capability: the text given or found under the key before,
\* the messages the text was made from, and whether the call threw
StorageCall(op, key, text, msgs, prev, threw) ==
    [op |-> op, key |-> key, text |-> text, msgs |-> msgs, prev |-> prev, threw |-> threw]

ProviderCall(p, method, messages) == [provider |-> p, method |-> method, messages |-> messages]

\* storedMessages ? JSON.parse(storedMessages) : []
StoredOrEmpty(text) == IF text # NoItem THEN JSONParse(text) ELSE <<>>

ReadIgnoringFailure(text, fail) == Some(StoredOrEmpty(text))

\* what getMessages resolves to; fail = getItem or JSON.parse throws, which is caught
ReadResult(text, fail) == IF fail THEN UndefinedMessages ELSE Some(StoredOrEmpty(text))

PropagatesStorageError(fail) == IF fail THEN "rejected" ELSE "done"

\* catch (err) { logger.error(...) }: setMessages / removeMessages resolve whether or
\* not the storage call threw
AfterStorageCall(fail) == "done"

\* some call of the log threw
AnyThrew(ops) == \E k \in 1..Len(ops) : ops[k].threw

\* The storage call of a cache operation, after the sync check; fail = the call throws.
\* A read is followed, with no shared state touched in between, by the branch handing
\* the value read to pluggable.processInAppMessages.
StorageOp(st, kind, p, messages, fail) ==
    LET key == StorageKey(getProviderName(p))
        prev == st.storage[key]
    IN CASE kind = "get" ->
              [st |-> [st EXCEPT
                         !.ops = Append(@, StorageCall("getItem", key, prev, <<>>, prev, fail)),
                         !.providerCalls =
                             Append(@, ProviderCall(p, "processInAppMessages",
                                                    ReadResult(prev, fail)))],
               pc |-> "awaitEvaluate",
               messages |-> UndefinedMessages]
         [] kind = "set" ->
              [st |-> [st EXCEPT
                         !.ops = Append(@, StorageCall("setItem", key, JSONStringify(messages.msgs),
                                                       messages.msgs, prev, fail)),
                         !.storage = IF fail THEN @
                                     ELSE [@ EXCEPT ![key] = JSONStringify(messages.msgs)],
                         !.written = IF fail THEN @ ELSE [@ EXCEPT ![key] = messages]],
               pc |-> AfterStorageCall(fail),
               messages |-> messages]
         [] kind = "remove" ->
              [st |-> [st EXCEPT
                         !.ops = Append(@, StorageCall("removeItem", key, NoItem, <<>>, prev, fail)),
                         !.storage = IF fail THEN @ ELSE [@ EXCEPT ![key] = NoItem],
                         !.written = IF fail THEN @ ELSE [@ EXCEPT ![key] = UndefinedMessages]],
               pc |-> AfterStorageCall(fail),
               messages |-> UndefinedMessages]

NeedsSyncAlways(synced) == TRUE

\* if (!this.storageSynced)
NeedsSync(synced) == ~synced

\* if (!this.storageSynced) { await this.syncStorage(); } up to the first suspension
EnterCache(st, kind, p, messages, fail) ==
    IF NeedsSync(st.synced)
    THEN IF storageHasSync
         THEN [st |-> [st EXCEPT !.syncs = @ + 1,
                                 !.ops = Append(@, StorageCall("sync", "", NoItem, <<>>, NoItem, FALSE))],
               pc |-> "awaitSync", messages |-> messages]
         ELSE [st |-> [st EXCEPT !.synced = TRUE],
               pc |-> "afterSync", messages |-> messages]
    ELSE StorageOp(st, kind, p, messages, fail)

getMessages(st, p, fail) == EnterCache(st, "get", p, UndefinedMessages, fail)

SkipsWriteWhenEmpty(messages) == ~messages.defined \/ messages.msgs = <<>>

\* if (!messages) { return; }
SkipsWrite(messages) == ~messages.defined

setMessages(st, p, messages, fail) ==
    IF SkipsWrite(messages)
    THEN [st |-> st, pc |-> "done", messages |-> UndefinedMessages]
    ELSE EnterCache(st, "set", p, messages, fail)

RemoveNothing(st, p, fail) == [st |-> st, pc |-> "done", messages |-> UndefinedMessages]

removeMessages(st, p, fail) == EnterCache(st, "remove", p, UndefinedMessages, fail)

CacheKind(op) ==
    CASE op = "dispatchEvent" -> "get"
      [] op = "syncMessages" -> "set"
      [] op = "clearMessages" -> "remove"

-----------------------------------------------------------------------------
(* Dispatch pipeline: syncMessages, clearMessages, dispatchEvent           *)

CurrentSt ==
    [synced |-> storageSynced, storage |-> storage, written |-> written,
     syncs |-> 0, ops |-> <<>>, providerCalls |-> <<>>]

\* the synchronous part of one mapped async callback, up to its first suspension
BranchStart(st, op, p, fail) ==
    CASE op = "syncMessages" ->
           [st |-> [st EXCEPT !.providerCalls =
                        Append(@, ProviderCall(p, "getInAppMessages", UndefinedMessages))],
            pc |-> "awaitFetch", messages |-> UndefinedMessages]
      [] op = "clearMessages" -> removeMessages(st, p, fail)
      [] op = "dispatchEvent" -> getMessages(st, p, fail)

\* this.pluggables.map(async pluggable => ...): the callbacks run in registry order
RECURSIVE StartBranches(_, _, _, _, _)
StartBranches(op, ps, fails, i, acc) ==
    IF i > Len(ps) THEN acc
    ELSE LET r == BranchStart(acc.st, op, ps[i], fails[i])
         IN StartBranches(op, ps, fails, i + 1,
                [st |-> r.st,
                 branches |-> Append(acc.branches,
                                [provider |-> ps[i], pc |-> r.pc,
                                 messages |-> r.messages, result |-> <<>>])])

MappedOnRecordOnly(op, e) ==
    IF op = "dispatchEvent" /\ e.event # "record" THEN <<>> ELSE pluggables

\* this.pluggables.map(...): every registered provider, whatever the call's argument
Mapped(op, e) == pluggables

Started(op, e, fails) ==
    StartBranches(op, Mapped(op, e), fails, 1, [st |-> CurrentSt, branches |-> <<>>])

Settled(cl) ==
    /\ cl.status # "pending"
    /\ \A i \in 1..Len(cl.branches) : cl.branches[i].pc \notin PendingPcs

RECURSIVE Flatten(_)
RECURSIVE FlattenReversed(_)
FlattenReversed(results) ==
    IF Len(results) = 0 THEN <<>> ELSE FlattenReversed(Tail(results)) \o Head(results)

\* lodash flatten of the per-provider results
Flatten(results) ==
    IF Len(results) = 0 THEN <<>> ELSE Head(results) \o Flatten(Tail(results))

\* which branches' storage call throws: only a branch that reaches its storage call
\* in the synchronous part can have it throw there
FailChoices(op) ==
    {fails \in [1..Len(pluggables) -> BOOLEAN] :
        \A i \in 1..Len(pluggables) :
            fails[i] => /\ op # "syncMessages"
                        /\ storageSynced \/ (~storageHasSync /\ i > 1)}

\* begin a top-level call: the branches' synchronous parts run at once
StartCall(op, e, fails, caller, payload) ==
    LET r == Started(op, e, fails)
    IN /\ Settled(call)
       /\ call' =
                       [op |-> op, event |-> e, status |-> "pending",
                        branches |-> r.branches, publications |-> 0,
                        storageSyncs |-> r.st.syncs, caught |-> AnyThrew(r.st.ops),
                        registry |-> pluggables]
       /\ storageSynced' = r.st.synced
       /\ storage' = r.st.storage
       /\ written' = r.st.written
       /\ last' = [NoLast EXCEPT !.op = caller, !.event = e,
                                 !.payload = payload, !.started = 1,
                                 !.before = pluggables,
                                 !.storageOps = r.st.ops,
                                 !.providerCalls = r.st.providerCalls]
       /\ UNCHANGED <<config, listeningForAnalyticEvents, pluggables, hubListeners,
                      storageHasSync>>

SyncMessages(fails) == StartCall("syncMessages", NoEvent, fails, "syncMessages", NoPayload)

ClearMessages(fails) == StartCall("clearMessages", NoEvent, fails, "clearMessages", NoPayload)

DispatchEvent(e, fails) == StartCall("dispatchEvent", e, fails, "dispatchEvent", NoPayload)

IsAnyEvent(event) == TRUE

\* case 'record'
IsRecord(event) == event = "record"

\* the Hub delivers a payload to the subscribed analyticsListener
AnalyticsListener(payload, fails) ==
    /\ hubListeners > 0
    /\ IF IsRecord(payload.event)
       THEN StartCall("dispatchEvent", payload.data, fails, "analyticsListener", payload)
       ELSE /\ last' = [NoLast EXCEPT !.op = "analyticsListener", !.payload = payload,
                                      !.before = pluggables]
            /\ UNCHANGED <<config, listeningForAnalyticEvents, pluggables, storageSynced,
                           hubListeners, storageHasSync, storage, written, call>>

-----------------------------------------------------------------------------
(* Continuations of the per-provider branches *)

Branch(i) == call.branches[i]

LiveProvider(i) ==
    IF i \in 1..Len(pluggables) THEN pluggables[i] ELSE call.branches[i].provider

\* the `pluggable` a mapped callback closes over: the array element it was called with
BranchProvider(i) == call.branches[i].provider

AtPc(i, pc) ==
    /\ i \in 1..Len(call.branches)
    /\ Branch(i).pc = pc

\* the branch moves on with the outcome r of a cache operation
Resume(i, r, op, fetched) ==
    /\ call' = [call EXCEPT !.branches[i].pc = r.pc,
                              !.branches[i].messages = r.messages,
                              !.storageSyncs = @ + r.st.syncs,
                              !.caught = @ \/ AnyThrew(r.st.ops)]
    /\ storageSynced' = r.st.synced
    /\ storage' = r.st.storage
    /\ written' = r.st.written
    /\ last' = [NoLast EXCEPT !.op = op, !.branch = i,
                              !.event = call.event, !.fetched = fetched,
                              !.storageOps = r.st.ops,
                              !.providerCalls = r.st.providerCalls]
    /\ UNCHANGED <<config, listeningForAnalyticEvents, pluggables, hubListeners, storageHasSync>>

\* pluggable.getInAppMessages() resolves; the branch goes on into setMessages
FetchSettle(i, fetched, fail) ==
    /\ AtPc(i, "awaitFetch")
    /\ Resume(i, setMessages(CurrentSt, BranchProvider(i), fetched, fail),
              "fetched", fetched)

\* pluggable.getInAppMessages() rejects
FetchReject(i) ==
    /\ AtPc(i, "awaitFetch")
    /\ call' = [call EXCEPT !.branches[i].pc = "rejected"]
    /\ last' = [NoLast EXCEPT !.op = "fetchReject", !.branch = i]
    /\ UNCHANGED <<config, listeningForAnalyticEvents, pluggables, storageSynced,
                   hubListeners, storageHasSync, storage, written>>

FlagSetByAnyAttempt(ok, synced) == TRUE

\* try { await storage.sync(); this.storageSynced = true; } catch (err) { logger.error(...) }
FlagAfterSync(ok, synced) == IF ok THEN TRUE ELSE synced

\* storage.sync() settles inside syncStorage: success sets the flag, failure is logged
SyncSettle(i, ok) ==
    /\ AtPc(i, "awaitSync")
    /\ call' = [call EXCEPT !.branches[i].pc = "afterSync",
                            !.caught = @ \/ ~ok]
    /\ storageSynced' = FlagAfterSync(ok, storageSynced)
    /\ last' = [NoLast EXCEPT !.op = IF ok THEN "syncOk" ELSE "syncFailed",
                              !.branch = i]
    /\ UNCHANGED <<config, listeningForAnalyticEvents, pluggables, hubListeners,
                   storageHasSync, storage, written>>

\* the cache operation goes on after `await this.syncStorage()`
AfterSync(i, fail) ==
    /\ AtPc(i, "afterSync")
    /\ Resume(i,
              StorageOp(CurrentSt, CacheKind(call.op), BranchProvider(i),
                        Branch(i).messages, fail),
              "afterSync", UndefinedMessages)

\* Promise.all can still fulfil: it has not rejected and no branch has rejected
CanJoin(cl) ==
    /\ cl.status = "pending"
    /\ \A j \in 1..Len(cl.branches) : cl.branches[j].pc # "rejected"

\* pluggable.processInAppMessages() resolves; Promise.all keeps the value only
\* while it can still fulfil
EvaluateSettle(i, result) ==
    /\ AtPc(i, "awaitEvaluate")
    /\ result \in EvaluateResults(BranchProvider(i))
    /\ call' = [call EXCEPT !.branches[i].pc = "done",
                            !.branches[i].result = IF CanJoin(call) THEN result ELSE <<>>]
    /\ last' = [NoLast EXCEPT !.op = "evaluateSettle", !.branch = i, !.results = <<result>>]
    /\ UNCHANGED <<config, listeningForAnalyticEvents, pluggables, storageSynced,
                   hubListeners, storageHasSync, storage, written>>

\* pluggable.processInAppMessages() rejects
EvaluateReject(i) ==
    /\ AtPc(i, "awaitEvaluate")
    /\ call' = [call EXCEPT !.branches[i].pc = "rejected"]
    /\ last' = [NoLast EXCEPT !.op = "evaluateReject", !.branch = i]
    /\ UNCHANGED <<config, listeningForAnalyticEvents, pluggables, storageSynced,
                   hubListeners, storageHasSync, storage, written>>

\* if (flattenedMessages.length) notifyMessageEventListeners(...)
Publications(op, flattened) ==
    IF op = "dispatchEvent" /\ Len(flattened) > 0 THEN <<flattened>> ELSE <<>>

AllSettled(cl) == \A i \in 1..Len(cl.branches) : cl.branches[i].pc \in {"done", "rejected"}

SomeFulfilled(cl) == \E i \in 1..Len(cl.branches) : cl.branches[i].pc = "done"

\* every promise handed to Promise.all has fulfilled
AllFulfilled(cl) == \A i \in 1..Len(cl.branches) : cl.branches[i].pc = "done"

\* Promise.all resolves: every branch fulfilled; dispatchEvent then flattens and
\* publishes.
Join ==
    LET results == [i \in 1..Len(call.branches) |-> Branch(i).result]
        published == Publications(call.op, Flatten(results))
    IN /\ call.status = "pending"
       /\ AllFulfilled(call)
       /\ call' = IdleCall
       /\ last' = [NoLast EXCEPT !.op = "join", !.name = call.op,
                                 !.event = call.event,
                                 !.before = [i \in 1..Len(call.branches) |-> Branch(i).provider],
                                 !.results = results, !.published = published,
                                 !.caught = call.caught]
       /\ UNCHANGED <<config, listeningForAnalyticEvents, pluggables, storageSynced,
                      hubListeners, storageHasSync, storage, written>>

\* Promise.all rejects: some branch rejected
Reject ==
    /\ call.status = "pending"
    /\ \E i \in 1..Len(call.branches) : Branch(i).pc = "rejected"
    /\ call' = [call EXCEPT !.status = "rejected"]
    /\ last' = [NoLast EXCEPT !.op = "reject", !.name = call.op]
    /\ UNCHANGED <<config, listeningForAnalyticEvents, pluggables, storageSynced,
                   hubListeners, storageHasSync, storage, written>>

BranchIndexes == 1..MaxPluggables

\* providers registered while exercising the pipeline
PipelineProviders == {"push", "pull"}

RECURSIVE SeqsUpTo(_, _)
SeqsUpTo(S, n) ==
    IF n = 0 THEN {<<>>}
    ELSE SeqsUpTo(S, n - 1) \cup {Append(q, x) : q \in SeqsUpTo(S, n - 1), x \in S}

\* The pipeline is exercised from the states the host's set-up leaves behind:
\* providers registered by addPluggable, configure not called so far; the
\* registry then stays as it is.
InitPipeline ==
    /\ config = InitialConfig
    /\ pluggables \in SeqsUpTo(PipelineProviders, MaxPluggables)
    /\ listeningForAnalyticEvents = FALSE
    /\ hubListeners = 0
    /\ storageSynced = FALSE
    /\ storageHasSync \in BOOLEAN
    /\ storage = [k \in StorageKeys |-> NoItem]
    /\ written = [k \in StorageKeys |-> UndefinedMessages]
    /\ call = IdleCall
    /\ last = NoLast

NextPipeline ==
    \/ \E fails \in FailChoices("syncMessages") : SyncMessages(fails)
    \/ \E fails \in FailChoices("clearMessages") : ClearMessages(fails)
    \/ \E fails \in FailChoices("dispatchEvent") : DispatchEvent(ClickedEvent, fails)
    \/ \E i \in BranchIndexes, fetched \in FetchResults, fail \in BOOLEAN :
          FetchSettle(i, fetched, fail)
    \/ \E i \in BranchIndexes : FetchReject(i)
    \/ \E i \in BranchIndexes, ok \in BOOLEAN : SyncSettle(i, ok)
    \/ \E i \in BranchIndexes, fail \in BOOLEAN : AfterSync(i, fail)
    \/ \E i \in BranchIndexes, result \in {<<>>, <<"m2">>, <<"m1", "m2">>} :
          EvaluateSettle(i, result)
    \/ \E i \in BranchIndexes : EvaluateReject(i)
    \/ Join
    \/ Reject

SpecPipeline == InitPipeline /\ [][NextPipeline]_vars

\* Dispatching alone is exercised from the same set-up states: dispatchEvent called
\* by the host with any argument, configure called by the host, and the Hub
\* delivering payloads to the subscribed listener.
NextDispatch ==
    \/ (Len(pluggables) > 0 /\ Configure("omitted", EmptyObject))
    \/ \E e \in DispatchInputs, fails \in FailChoices("dispatchEvent") : DispatchEvent(e, fails)
    \/ \E payload \in HubPayloads, fails \in FailChoices("dispatchEvent") : AnalyticsListener(payload, fails)
    \/ \E i \in BranchIndexes, ok \in BOOLEAN : SyncSettle(i, ok)
    \/ \E i \in BranchIndexes, fail \in BOOLEAN : AfterSync(i, fail)
    \/ \E i \in BranchIndexes, result \in {<<>>, <<"m2">>, <<"m1", "m2">>} :
          EvaluateSettle(i, result)
    \/ \E i \in BranchIndexes : EvaluateReject(i)
    \/ Join
    \/ Reject

SpecDispatch == InitPipeline /\ [][NextDispatch]_vars

\* no storage call throws
NoFailure == [i \in 1..Len(pluggables) |-> FALSE]

\* The registry changing under a call in flight: from the same set-up states, with
\* no failure, the host calls addPluggable and removePluggable while a
\* syncMessages, clearMessages or dispatchEvent is pending.
NextInFlight ==
    \/ SyncMessages(NoFailure)
    \/ ClearMessages(NoFailure)
    \/ DispatchEvent(ClickedEvent, NoFailure)
    \/ \E p \in PipelineProviders : call.status = "pending" /\ AddPluggable(p)
    \/ \E name \in PipelineProviders : call.status = "pending" /\ RemovePluggable(name)
    \/ \E i \in BranchIndexes, fetched \in FetchResults : FetchSettle(i, fetched, FALSE)
    \/ \E i \in BranchIndexes : SyncSettle(i, TRUE)
    \/ \E i \in BranchIndexes : AfterSync(i, FALSE)
    \/ \E i \in BranchIndexes, result \in {<<>>, <<"m2">>, <<"m1", "m2">>} :
          EvaluateSettle(i, result)
    \/ Join

SpecInFlight == InitPipeline /\ [][NextInFlight]_vars

-----------------------------------------------------------------------------
(* Properties of the registry and of configure                             *)

\* number of registry entries carrying a name
CountName(ps, name) == Cardinality({i \in 1..Len(ps) : getProviderName(ps[i]) = name})

\* C1 as stated: after addPluggable(P) of a valid P, getPluggable(P.getProviderName())
\* is P itself; after removePluggable(name), getPluggable(name) is null.
C1_AsStated ==
    /\ (last.op = "addPluggable" /\ Accepted(last.provider))
          => getPluggable(pluggables, getProviderName(last.provider)) = last.provider
    /\ last.op = "removePluggable"
          => getPluggable(pluggables, last.name) = NullProvider

\* C1 amended: getPluggable returns the first entry of that name. After addPluggable(P)
\* that is P itself unless an entry of the same name was registered before, in which
\* case it is still that earlier entry; after removePluggable(name) it is null when the
\* registry held at most one entry of that name, and the next entry of that name otherwise.
C1_FirstEntryOfName ==
    /\ (last.op = "addPluggable" /\ Accepted(last.provider))
          => LET n == getProviderName(last.provider)
             IN getPluggable(pluggables, n) =
                    IF CountName(last.before, n) = 0
                    THEN last.provider
                    ELSE getPluggable(last.before, n)
    /\ last.op = "removePluggable"
          => IF CountName(last.before, last.name) <= 1
             THEN getPluggable(pluggables, last.name) = NullProvider
             ELSE \E i, j \in 1..Len(last.before) :
                    /\ i < j
                    /\ getProviderName(last.before[i]) = last.name
                    /\ getProviderName(last.before[j]) = last.name
                    /\ \A k \in 1..(j - 1) : k # i => getProviderName(last.before[k]) # last.name
                    /\ getPluggable(pluggables, last.name) = last.before[j]

\* a second provider named "push" was just added behind the first one
C1_Witness ==
    /\ last.op = "addPluggable"
    /\ last.provider = "push2"
    /\ last.before = <<"push">>
    /\ getPluggable(pluggables, "push") = "push"

\* C2: addPluggable of a provider failing the category / subCategory check, or of
\* null, leaves the registry as it was and configures nothing; every registry entry
\* has category Notifications and subCategory InAppMessaging.
C2_RejectedIsNoOp ==
    /\ (last.op = "addPluggable" /\ (last.provider = NullProvider
                                      \/ getCategory(last.provider) # "Notifications"
                                      \/ getSubCategory(last.provider) # "InAppMessaging"))
          => (pluggables = last.before /\ last.configured = <<>>)
    /\ \A i \in 1..Len(pluggables) :
          /\ getCategory(pluggables[i]) = "Notifications"
          /\ getSubCategory(pluggables[i]) = "InAppMessaging"

\* a provider of the wrong subCategory was just offered to a non-empty registry
C2_Witness ==
    /\ last.op = "addPluggable"
    /\ last.provider = "pushNotification"
    /\ Len(last.before) = 1
    /\ pluggables = last.before

\* C3 as stated: every provider configured by addPluggable or configure receives
\* the global configuration merged with its own sub-configuration.
C3_AsStated ==
    last.op \in {"addPluggable", "configure"}
       => \A i \in 1..Len(last.configured) :
             last.configured[i].cfg =
                 MergedConfig(config, getProviderName(last.configured[i].provider))

\* C4: configure on an empty registry leaves exactly the default provider registered;
\* configure on a non-empty registry leaves the registry as it was.
C4_DefaultOnlyWhenEmpty ==
    last.op = "configure"
       => IF Len(last.before) = 0
          THEN pluggables = <<DefaultProvider>>
          ELSE pluggables = last.before

\* configure ran on a registry already holding the default provider and another one
C4_Witness ==
    /\ last.op = "configure"
    /\ last.before = <<DefaultProvider, "pull">>
    /\ pluggables = last.before

\* C5: the analytics bus is subscribed to at most once, by the first configure whose
\* listenForAnalyticsEvents is true or omitted, and the listening flag never goes
\* back to false.
C5_SubscribesOnce ==
    /\ [](/\ hubListeners <= 1
          /\ listeningForAnalyticEvents <=> (hubListeners = 1)
          /\ (last.op = "configure" /\ last.listen # "false") => listeningForAnalyticEvents)
    /\ [][/\ listeningForAnalyticEvents => listeningForAnalyticEvents'
          /\ hubListeners' # hubListeners
                => (~listeningForAnalyticEvents /\ last'.op = "configure" /\ last'.listen # "false")]_vars

\* a later configure asking to listen found the engine already listening
C5_Witness ==
    /\ last.op = "configure"
    /\ last.listen = "true"
    /\ last.subscribed = 0
    /\ hubListeners = 1

-----------------------------------------------------------------------------
(* Properties of dispatching and of the message cache                      *)

\* C6 as stated: a dispatch of { event: 'other', data: {} } reads no cache slot,
\* calls no provider and publishes nothing.
C6_AsStated ==
    last.event.event = "other"
       => /\ last.providerCalls = <<>>
          /\ \A k \in 1..Len(last.storageOps) : last.storageOps[k].op # "getItem"
          /\ last.published = <<>>

\* C6 amended: dispatchEvent does not look at its argument. Called with
\* { event: 'other', data: {} } it starts one branch per registered provider, each
\* branch reads the provider's cache slot and hands what it read to the provider's
\* evaluate, and when all have resolved it publishes iff some result is non-empty;
\* no provider is called only when the registry is empty.
C6_DispatchIgnoresDiscriminator ==
    last.event.event = "other"
       => /\ last.op = "dispatchEvent"
             => /\ call.status = "pending"
                /\ call.event = last.event
                /\ Len(call.branches) = Len(pluggables)
                /\ \A i \in 1..Len(pluggables) :
                      /\ call.branches[i].provider = pluggables[i]
                      /\ call.branches[i].pc \in {"awaitSync", "afterSync", "awaitEvaluate"}
          /\ \A k \in 1..Len(last.providerCalls) :
                last.providerCalls[k].method = "processInAppMessages"
          /\ Cardinality({k \in 1..Len(last.storageOps) : last.storageOps[k].op = "getItem"})
                = Len(last.providerCalls)
          /\ last.op = "dispatchEvent"
                => Cardinality({i \in 1..Len(call.branches) :
                                    call.branches[i].pc = "awaitEvaluate"})
                      = Len(last.providerCalls)
          /\ last.op = "join"
                => (last.published = <<>> <=> \A i \in 1..Len(last.results) : last.results[i] = <<>>)

\* a dispatch of { event: 'other', data: {} } over two providers ended in a publication
C6_Witness ==
    /\ last.event.event = "other"
    /\ last.op = "join"
    /\ Len(last.before) = 2
    /\ last.published # <<>>

\* C7: a Hub payload with event 'record' makes the listener start exactly one dispatch
\* with the payload's data; a payload with any other event changes nothing: no
\* dispatch, no provider or storage call, no publication.
C7_ListenerDispatchesRecords ==
    /\ [](last.op = "analyticsListener"
            => IF last.payload.event = "record"
               THEN /\ last.started = 1
                    /\ call.op = "dispatchEvent"
                    /\ call.status = "pending"
                    /\ call.event = last.payload.data
                    /\ Len(call.branches) = Len(pluggables)
               ELSE /\ last.started = 0
                    /\ last.providerCalls = <<>>
                    /\ last.storageOps = <<>>
                    /\ last.published = <<>>)
    /\ [][(last'.op = "analyticsListener" /\ last'.payload.event # "record")
            => UNCHANGED <<call, storage, written, storageSynced, pluggables>>]_vars

\* a 'record' payload has just started a dispatch over two providers
C7_Witness ==
    /\ last.op = "analyticsListener"
    /\ last.payload.event = "record"
    /\ call.status = "pending"
    /\ Len(call.branches) = 2

RECURSIVE SumLen(_)
SumLen(rs) == IF Len(rs) = 0 THEN 0 ELSE Len(Head(rs)) + SumLen(Tail(rs))

\* C8: when every evaluate of a dispatch has resolved, MESSAGES_RECEIVED is published
\* once if some result is non-empty and not at all otherwise; the payload is the
\* providers' results one after the other in registry order, each in its own order.
\* Nothing is published at any other moment.
C8_PublishesFlatOnce ==
    /\ last.op # "join" => last.published = <<>>
    /\ (last.op = "join" /\ last.name # "dispatchEvent") => last.published = <<>>
    /\ (last.op = "join" /\ last.name = "dispatchEvent")
          => LET rs == last.results
                 Offset(i) == SumLen(SubSeq(rs, 1, i - 1))
             IN /\ last.before = pluggables
                /\ Len(rs) = Len(pluggables)
                /\ \A i \in 1..Len(rs) : rs[i] \in EvaluateResults(pluggables[i])
                /\ IF SumLen(rs) = 0
                   THEN last.published = <<>>
                   ELSE /\ Len(last.published) = 1
                        /\ Len(last.published[1]) = SumLen(rs)
                        /\ \A i \in 1..Len(rs) : \A j \in 1..Len(rs[i]) :
                              last.published[1][Offset(i) + j] = rs[i][j]

\* two providers both returned matches and one publication carried them in order
C8_Witness ==
    /\ last.op = "join"
    /\ last.name = "dispatchEvent"
    /\ last.results = << <<"m1", "m2">>, <<"m2">> >>
    /\ last.published = << <<"m1", "m2", "m2">> >>

\* C9: a cache read that does not fail hands the provider's evaluate exactly the
\* sequence last written to the provider's slot, same elements in the same order,
\* and the empty sequence when the slot holds nothing.
C9_ReadsBackWhatWasWritten ==
    \A k \in 1..Len(last.providerCalls) :
        LET pcall == last.providerCalls[k]
            slot == written[StorageKey(getProviderName(pcall.provider))]
        IN (pcall.method = "processInAppMessages" /\ pcall.messages.defined)
              => pcall.messages.msgs = IF slot.defined THEN slot.msgs ELSE <<>>

\* evaluate was handed the two messages that syncMessages wrote, in their order
C9_Witness ==
    \E k \in 1..Len(last.providerCalls) :
        /\ last.providerCalls[k].method = "processInAppMessages"
        /\ last.providerCalls[k].messages = Some(<<"m1", "m2">>)
        /\ written[StorageKey(getProviderName(last.providerCalls[k].provider))]
              = Some(<<"m1", "m2">>)

\* C10: a fetch that yields undefined ends the provider's branch with no storage
\* call (no sync, no write) and leaves storage and the sync flag as they were; a
\* fetched empty sequence goes on to the write, and the write, when it does not
\* throw, replaces the slot's value by the serialised empty sequence.
C10_UndefinedFetchIsNoOp ==
    /\ [](/\ (last.op = "fetched" /\ ~last.fetched.defined)
                => /\ last.storageOps = <<>>
                   /\ call.branches[last.branch].pc = "done"
          /\ (last.op = "fetched" /\ last.fetched = Some(<<>>))
                => \/ /\ call.branches[last.branch].pc \in {"awaitSync", "afterSync"}
                      /\ call.branches[last.branch].messages = Some(<<>>)
                   \/ \E k \in 1..Len(last.storageOps) :
                         /\ last.storageOps[k].op = "setItem"
                         /\ last.storageOps[k].msgs = <<>>
          /\ (last.op = "afterSync" /\ call.op = "syncMessages")
                => /\ Len(last.storageOps) = 1
                   /\ last.storageOps[1].op = "setItem"
          /\ \A k \in 1..Len(last.storageOps) :
                LET o == last.storageOps[k]
                IN (o.op = "setItem" /\ ~o.threw)
                      => /\ storage[o.key] # NoItem
                         /\ written[o.key] = Some(o.msgs)
                         /\ o.msgs = <<>> => storage[o.key] = <<"[", "]">>)
    /\ [][(last'.op = "fetched" /\ ~last'.fetched.defined)
            => UNCHANGED <<storage, written, storageSynced>>]_vars

\* a fetched empty sequence has just replaced two stored messages
C10_Witness ==
    \E k \in 1..Len(last.storageOps) :
        /\ last.storageOps[k].op = "setItem"
        /\ last.storageOps[k].msgs = <<>>
        /\ ~last.storageOps[k].threw
        /\ last.storageOps[k].prev = JSONStringify(<<"m1", "m2">>)
        /\ storage[last.storageOps[k].key] = <<"[", "]">>

-----------------------------------------------------------------------------
(* Properties of the sync flag, of failures and of the fan-out / fan-in    *)

\* the log holds a call of the underlying storage.sync()
SyncLogged(ops) == \E k \in 1..Len(ops) : ops[k].op = "sync"

\* the getItem calls of a log, and the evaluate calls of a log, in their order
GetCalls(ops) == SelectSeq(ops, LAMBDA o : o.op = "getItem")
EvaluateCalls(pcalls) == SelectSeq(pcalls, LAMBDA c : c.method = "processInAppMessages")

\* no later call of the log is on the same key
LastOnKey(ops, k) == \A j \in (k + 1)..Len(ops) : ops[j].key # ops[k].key

\* the provider calls through which a branch of the followed call has newly rejected
NewlyRejected(i) ==
    /\ i \in 1..Len(call'.branches)
    /\ call'.branches[i].pc = "rejected"
    /\ ~(call'.op = call.op /\ i \in 1..Len(call.branches) /\ call.branches[i].pc = "rejected")

\* C11: once the sync flag is set, no cache operation calls the underlying
\* storage.sync() again: a step that calls it starts from a cleared flag, and from
\* a set flag on the followed call's count of sync calls never grows.
C11_NoSyncAfterSuccess ==
    /\ [](SyncLogged(last.storageOps) => ~storageSynced)
    /\ [][storageSynced
            => /\ storageSynced'
               /\ ~SyncLogged(last'.storageOps)
               /\ call'.storageSyncs <= call.storageSyncs]_vars

\* storage has a sync(), it has succeeded, and a later call has just done its
\* storage calls without calling it
C11_Witness ==
    /\ storageHasSync
    /\ storageSynced
    /\ call.status = "pending"
    /\ call.storageSyncs = 0
    /\ Len(last.storageOps) = 2
    /\ ~SyncLogged(last.storageOps)

\* C12: a getItem (or parse) that throws during a dispatch makes the read resolve
\* to undefined: the provider's evaluate is still called, with undefined, the branch
\* goes on to await it, no branch rejects because of it, and a read of another
\* provider in the same step hands that provider what its slot holds.
C12_ReadFailsOpen ==
    /\ [](LET gets == GetCalls(last.storageOps)
              evals == EvaluateCalls(last.providerCalls)
          IN /\ Len(gets) = Len(evals)
             /\ \A k \in 1..Len(gets) :
                   /\ gets[k].key = StorageKey(getProviderName(evals[k].provider))
                   /\ gets[k].threw => evals[k].messages = UndefinedMessages
                   /\ ~gets[k].threw
                         => evals[k].messages =
                               Some(IF written[gets[k].key].defined
                                    THEN written[gets[k].key].msgs ELSE <<>>)
             /\ Len(gets) > 0
                   => /\ call.op = "dispatchEvent"
                      /\ Cardinality({i \in 1..Len(call.branches) :
                                         call.branches[i].pc = "awaitEvaluate"}) >= Len(gets)
                      /\ last.op = "afterSync" => call.branches[last.branch].pc = "awaitEvaluate")
    /\ [][AnyThrew(GetCalls(last'.storageOps))
            => /\ \A i \in BranchIndexes : ~NewlyRejected(i)
               /\ call'.status = "rejected" => (call.status = "rejected" /\ call'.op = call.op)]_vars

\* two reads in one step: the first threw and its provider got undefined, the second
\* handed its provider the two stored messages
C12_Witness ==
    LET gets == GetCalls(last.storageOps)
        evals == EvaluateCalls(last.providerCalls)
    IN /\ Len(gets) = 2
       /\ gets[1].threw
       /\ ~gets[2].threw
       /\ evals[1].messages = UndefinedMessages
       /\ evals[2].messages = Some(<<"m1", "m2">>)
       /\ call.status = "pending"

\* C13: storage failures never reject syncMessages or clearMessages. A branch
\* rejects only through its provider's fetch; a setItem / removeItem that throws
\* ends the branch normally; a failed sync is followed by the branch's storage
\* call; and every storage call that does not throw takes effect whatever happened
\* in the other branches.
C13_StorageFailuresAreCaught ==
    /\ [](/\ call.op = "clearMessages"
                => /\ call.status # "rejected"
                   /\ \A i \in 1..Len(call.branches) : call.branches[i].pc # "rejected"
          /\ (last.op \in {"fetched", "afterSync"} /\ AnyThrew(last.storageOps))
                => call.branches[last.branch].pc \in {"done", "awaitEvaluate"}
          /\ (last.op = "clearMessages" /\ AnyThrew(last.storageOps))
                => \A i \in 1..Len(call.branches) : call.branches[i].pc \in {"done", "afterSync"}
          /\ last.op = "syncFailed" => call.branches[last.branch].pc = "afterSync"
          /\ last.op = "afterSync" => Len(last.storageOps) = 1
          /\ \A k \in 1..Len(last.storageOps) :
                LET o == last.storageOps[k]
                IN LastOnKey(last.storageOps, k)
                      => /\ (o.op = "removeItem" /\ ~o.threw) => storage[o.key] = NoItem
                         /\ (o.op = "setItem" /\ ~o.threw) => storage[o.key] = o.text
                         /\ (o.op \in {"setItem", "removeItem"} /\ o.threw)
                               => storage[o.key] = o.prev)
    /\ [][\A i \in BranchIndexes :
             (NewlyRejected(i) /\ call'.op \in {"syncMessages", "clearMessages"})
                => last'.op = "fetchReject"]_vars

\* syncMessages over push and pull has resolved although a storage failure was
\* caught on the way, and pull's fetched messages are in its slot
C13_Witness ==
    /\ last.op = "join"
    /\ last.name = "syncMessages"
    /\ last.caught
    /\ last.before = <<"push", "pull">>
    /\ ~written["push_inAppMessages"].defined
    /\ storage["pull_inAppMessages"] = JSONStringify(<<"m1", "m2">>)

\* the two slots of the scenario exist under their names
ScenarioKeys == {"push_inAppMessages", "pull_inAppMessages"} \subseteq DOMAIN storage

\* the slot of the i-th provider of <<"push", "pull">>
ScenarioKey(i) == IF i = 1 THEN "push_inAppMessages" ELSE "pull_inAppMessages"

\* C14: with push and pull registered and no failure, when syncMessages resolves
\* the slots push_inAppMessages and pull_inAppMessages hold the sequences their
\* providers' fetches resolved to; when clearMessages resolves both slots are
\* absent; a dispatch reading an absent slot hands the provider the empty sequence,
\* and a dispatch whose providers all return no match publishes nothing.
C14_SyncClearDispatch ==
    /\ [](/\ ScenarioKeys
          /\ (last.op = "join" /\ last.name = "clearMessages"
                 /\ last.before = <<"push", "pull">> /\ ~last.caught)
                => \A i \in 1..2 : storage[ScenarioKey(i)] = NoItem
          /\ (last.before = <<"push", "pull">> /\ last.op \in {"dispatchEvent", "afterSync"})
                => \A k \in 1..Len(last.providerCalls) :
                      LET c == last.providerCalls[k]
                      IN (/\ c.method = "processInAppMessages"
                          /\ storage[StorageKey(getProviderName(c.provider))] = NoItem
                          /\ ~AnyThrew(last.storageOps))
                            => c.messages = Some(<<>>)
          /\ (last.op = "join" /\ last.name = "dispatchEvent"
                 /\ \A i \in 1..Len(last.results) : last.results[i] = <<>>)
                => last.published = <<>>)
    /\ [][(/\ ScenarioKeys
           /\ last'.op = "join" /\ last'.name = "syncMessages"
           /\ last'.before = <<"push", "pull">> /\ ~last'.caught)
            => \A i \in 1..2 :
                  call.branches[i].messages.defined
                     => /\ storage'[ScenarioKey(i)] = JSONStringify(call.branches[i].messages.msgs)
                        /\ JSONParse(storage'[ScenarioKey(i)]) = call.branches[i].messages.msgs]_vars

\* clearMessages has just removed, from both slots, the two messages that an
\* earlier syncMessages stored there
C14_Witness ==
    /\ last.op = "clearMessages"
    /\ last.before = <<"push", "pull">>
    /\ Len(last.storageOps) = 2
    /\ \A k \in 1..2 :
          /\ last.storageOps[k].op = "removeItem"
          /\ last.storageOps[k].key = ScenarioKey(k)
          /\ last.storageOps[k].prev = JSONStringify(<<"m1", "m2">>)
          /\ ~last.storageOps[k].threw
    /\ \A i \in 1..2 : storage[ScenarioKey(i)] = NoItem

\* some branch of the followed call has rejected
SomeRejected(cl) == \E i \in 1..Len(cl.branches) : cl.branches[i].pc = "rejected"

\* C15 as stated: at the moment a call completes, by resolving or by rejecting to
\* its caller, none of its per-provider branches is still pending.
C15_AsStated ==
    /\ last.op = "join" => call = IdleCall
    /\ last.op = "reject"
          => \A i \in 1..Len(call.branches) : call.branches[i].pc \notin PendingPcs

\* C16: a provider error fails the whole call. A call with a rejected branch never
\* resolves and never publishes, whatever the other providers returned; the only
\* way on is its rejection, and a call is rejected only when one of its branches
\* has rejected.
C16_ProviderErrorFailsTheCall ==
    /\ [](call.status = "rejected" => SomeRejected(call))
    /\ [][(call.status = "pending" /\ SomeRejected(call))
            => /\ last'.op # "join"
               /\ last'.published = <<>>
               /\ call'.op = call.op
               /\ call'.status \in {"pending", "rejected"}
               /\ SomeRejected(call')]_vars
    /\ [][call.status = "rejected"
            => /\ last'.op # "join"
               /\ last'.published = <<>>]_vars

\* a dispatch has rejected because pull's evaluate failed, after push's evaluate had
\* returned two matching messages
C16_Witness ==
    /\ call.op = "dispatchEvent"
    /\ call.status = "rejected"
    /\ Len(call.branches) = 2
    /\ call.branches[1].pc = "done"
    /\ call.branches[1].result = <<"m1", "m2">>
    /\ call.branches[2].pc = "rejected"

\* C17: a publication is made only by the step in which the dispatch resolves: in
\* the state before it every branch of the dispatch has fulfilled, none is pending,
\* and after it the dispatch is over, so there is one publication at most.
C17_PublishesAfterAllSettled ==
    /\ [](last.published # <<>>
            => /\ last.op = "join"
               /\ last.name = "dispatchEvent"
               /\ Len(last.published) = 1
               /\ call = IdleCall)
    /\ [][last'.published # <<>>
            => /\ call.op = "dispatchEvent"
               /\ call.status = "pending"
               /\ Len(call.branches) > 0
               /\ \A i \in 1..Len(call.branches) : call.branches[i].pc = "done"
               /\ last.published = <<>>]_vars

\* the second of two providers was the only one to match, and its message was
\* published once both had settled
C17_Witness ==
    /\ last.op = "join"
    /\ last.results = << <<>>, <<"m2">> >>
    /\ last.published = << <<"m2">> >>
    /\ call = IdleCall

\* the step into the primed state entered a cache operation: a read or a removal
\* for each registered provider, or the write of a fetched sequence
EntersCacheOperation ==
    \/ last'.op \in {"clearMessages", "dispatchEvent"} /\ Len(pluggables) > 0
    \/ last'.op = "fetched" /\ last'.fetched.defined

C19_RemovesFirstMatchOnly ==
    last.op = "removePluggable"
       => LET before == last.before
              matches == {i \in 1..Len(before) : getProviderName(before[i]) = last.name}
          IN IF matches = {}
             THEN pluggables = before
             ELSE \E i \in matches :
                     /\ \A j \in matches : i <= j
                     /\ Len(pluggables) = Len(before) - 1
                     /\ \A j \in 1..(i - 1) : pluggables[j] = before[j]
                     /\ \A j \in i..Len(pluggables) : pluggables[j] = before[j + 1]

\* of two entries named push the first was removed and the re-registered one stays
C19_Witness ==
    /\ last.op = "removePluggable"
    /\ last.name = "push"
    /\ last.before = <<"push", "push2">>
    /\ pluggables = <<"push2">>

\* C20 as stated: storage.sync() is never called while another call of it is in
\* flight, and one syncMessages, clearMessages or dispatchEvent performs at most
\* one storage.sync().
C20_AsStated ==
    /\ Cardinality({i \in 1..Len(call.branches) : call.branches[i].pc = "awaitSync"}) <= 1
    /\ call.storageSyncs <= 1

-----------------------------------------------------------------------------
(* Properties of a call in flight while the registry changes               *)

\* the slot of the i-th provider of the registry a call was made on
SnapshotKey(i) == StorageKey(getProviderName(call.registry[i]))

\* no other provider of that registry shares the slot
OwnSlot(i) ==
    \A j \in 1..Len(call.registry) : j # i => SnapshotKey(j) # SnapshotKey(i)

\* C21: a call works on the registry as it was when the call was made. Its branches
\* are, one for one and in order, the providers registered at that moment;
\* addPluggable and removePluggable during the call change neither the call nor
\* storage; every later storage or provider call of a branch is for that branch's
\* provider, registered or not by then; and when the call resolves every slot of
\* that registry has been written or cleared and every provider of it, removed or
\* not, has its result in the publication.
C21_WorksOnRegistryAtCallTime ==
    /\ [](/\ call.status = "pending"
                => /\ Len(call.branches) = Len(call.registry)
                   /\ \A i \in 1..Len(call.registry) :
                         call.branches[i].provider = call.registry[i]
          /\ last.op \in {"syncMessages", "clearMessages", "dispatchEvent"}
                => /\ call.registry = pluggables
                   /\ call.registry = last.before
          /\ last.op \in {"fetched", "afterSync"}
                => /\ \A k \in 1..Len(last.storageOps) :
                         last.storageOps[k].op # "sync"
                            => last.storageOps[k].key = SnapshotKey(last.branch)
                   /\ \A k \in 1..Len(last.providerCalls) :
                         last.providerCalls[k].provider = call.registry[last.branch])
    /\ [][last'.op \in {"addPluggable", "removePluggable"}
            => UNCHANGED <<call, storage, written, storageSynced>>]_vars
    /\ [][last'.op = "join"
            => /\ last'.before = call.registry
               /\ Len(last'.results) = Len(call.registry)
               /\ call.op = "dispatchEvent"
                     => /\ \A i \in 1..Len(call.registry) :
                              last'.results[i] \in EvaluateResults(call.registry[i])
                        /\ IF SumLen(last'.results) = 0
                           THEN last'.published = <<>>
                           ELSE /\ Len(last'.published) = 1
                                /\ Len(last'.published[1]) = SumLen(last'.results)
               /\ call.op = "clearMessages"
                     => \A i \in 1..Len(call.registry) : storage'[SnapshotKey(i)] = NoItem
               /\ call.op = "syncMessages"
                     => \A i \in 1..Len(call.registry) :
                           (OwnSlot(i) /\ call.branches[i].messages.defined)
                              => storage'[SnapshotKey(i)] =
                                    JSONStringify(call.branches[i].messages.msgs)]_vars

\* a dispatch made on <<push, pull>> has resolved after pull was removed from the
\* registry, and pull's match is in its publication behind push's
C21_Witness ==
    /\ last.op = "join"
    /\ last.name = "dispatchEvent"
    /\ last.before = <<"push", "pull">>
    /\ pluggables = <<"push">>
    /\ last.published = << <<"m1", "m2", "m2">> >>

====
